---- MODULE Spec2Model ----
(***************************************************************************)
(* Model of src/ipinfo.js: one HTTP handler (module.exports) that resolves *)
(* an IPv4 address, validates it, asks a geolocation service about it and  *)
(* composes a ten-section payload with the helper functions of the file.   *)
(*                                                                         *)
(* JavaScript strings are TLA+ strings (TLC evaluates Len, SubSeq and \o   *)
(* on them).  The emoji of the source's literals are left out of the       *)
(* literals here (the module is ASCII); nothing in the code reads them.    *)
(* A JavaScript value of varying type is a tagged record (Str, Num, ...).  *)
(***************************************************************************)
EXTENDS Integers, Sequences, FiniteSets, TLC

VARIABLES
  pc,          \* where the invocation is: "start", "await" (suspended in axios.get), "done"
  req,         \* the inbound request: method, query, headers
  ip,          \* the handler's local ip (Undefined until line 25 runs)
  calls,       \* the URLs requested with axios.get, in order
  ipData,      \* response.data once the outbound call resolved
  caught,      \* the message of the error the catch block received
  resHeaders,  \* headers set on the response
  resStatus,   \* status set on the response (0: none yet)
  resBody,     \* the body as sent: NoBody after end(), the serialised JSON after json()
  sent,        \* how many times the response was ended
  arg,         \* the argument of a helper applied on its own
  out          \* and what the helpers returned for it

vars == <<pc, req, ip, calls, ipData, caught, resHeaders, resStatus, resBody, sent, arg, out>>

(***************************************************************************)
(* JavaScript values                                                       *)
(***************************************************************************)
Undefined == [ty |-> "undefined"]

Null == [ty |-> "null"]

Str(s) == [ty |-> "string", v |-> s]

Num(n) == [ty |-> "number", v |-> n]

Arr(items) == [ty |-> "array", v |-> items]

Obj(fields) == [ty |-> "object", v |-> fields]

Bool(b) == [ty |-> "boolean", v |-> b]

\* ToBoolean: undefined, null, "" and 0 are falsy.
Truthy(x) ==
  CASE x.ty = "undefined" -> FALSE
    [] x.ty = "null" -> FALSE
    [] x.ty = "string" -> x.v # ""
    [] x.ty = "number" -> x.v # 0
    [] x.ty = "boolean" -> x.v
    [] OTHER -> TRUE

\* a || b
Or(a, b) == IF Truthy(a) THEN a ELSE b

IsStr(x) == x.ty = "string"

\* o[key] of an object: undefined when the key is absent.
Get(o, key) == IF key \in DOMAIN o THEN o[key] ELSE Undefined

(***************************************************************************)
(* String primitives                                                       *)
(***************************************************************************)
CharAt(s, i) == SubSeq(s, i, i)

Digits == <<"0", "1", "2", "3", "4", "5", "6", "7", "8", "9">>

IsDigit(c) == \E d \in 1..10 : Digits[d] = c

Whitespace == {" ", "\t", "\n", "\r"}

\* String.prototype.indexOf, 1-based; 0 when sub does not occur.
IndexOf(s, sub) ==
  LET hits == {i \in 1..(Len(s) - Len(sub) + 1) : SubSeq(s, i, i + Len(sub) - 1) = sub}
  IN  IF hits = {} THEN 0 ELSE CHOOSE i \in hits : \A j \in hits : i <= j

\* String.prototype.includes
Includes(s, sub) == IndexOf(s, sub) # 0

\* s.split(sep), for a one-character sep: the sequence of the pieces.
RECURSIVE Split(_, _)
Split(s, sep) ==
  LET i == IndexOf(s, sep)
  IN  IF i = 0 THEN <<s>>
      ELSE <<SubSeq(s, 1, i - 1)>> \o Split(SubSeq(s, i + 1, Len(s)), sep)

\* String.prototype.trim
RECURSIVE TrimStart(_)
TrimStart(s) ==
  IF Len(s) > 0 /\ CharAt(s, 1) \in Whitespace THEN TrimStart(SubSeq(s, 2, Len(s))) ELSE s

RECURSIVE TrimEnd(_)
TrimEnd(s) ==
  IF Len(s) > 0 /\ CharAt(s, Len(s)) \in Whitespace THEN TrimEnd(SubSeq(s, 1, Len(s) - 1)) ELSE s

Trim(s) == TrimEnd(TrimStart(s))

\* s.replace(/pat/, ''), pat a literal without the g flag: the first
\* occurrence is removed, wherever it is.
RemoveFirst(s, pat) ==
  LET i == IndexOf(s, pat)
  IN  IF i = 0 THEN s
      ELSE SubSeq(s, 1, i - 1) \o SubSeq(s, i + Len(pat), Len(s))

\* Number(s) / parseInt(s) of a string of decimal digits (the only strings
\* that pass the validation before the helpers run).
RECURSIVE ToNumber(_)
ToNumber(s) ==
  IF Len(s) = 0 THEN 0
  ELSE 10 * ToNumber(SubSeq(s, 1, Len(s) - 1))
       + ((CHOOSE d \in 1..10 : Digits[d] = CharAt(s, Len(s))) - 1)

\* String(n) of a non-negative integer.
RECURSIVE NatToString(_)
NatToString(n) ==
  IF n < 10 THEN Digits[n + 1] ELSE NatToString(n \div 10) \o Digits[(n % 10) + 1]

\* String(n), as a template literal renders a number.
NumToString(n) == IF n < 0 THEN "-" \o NatToString(0 - n) ELSE NatToString(n)

\* `${x}`
ToStr(x) ==
  CASE x.ty = "undefined" -> "undefined"
    [] x.ty = "null" -> "null"
    [] x.ty = "string" -> x.v
    [] x.ty = "number" -> NumToString(x.v)
    [] OTHER -> "[object]"

(***************************************************************************)
(* Address resolution and validation                                       *)
(***************************************************************************)
DefaultIP == "8.8.8.8"

\* ResolveIP with the query parameter cleaned up like a header value
ResolveIP_Trimmed(r) ==
  LET raw == Or(Get(r.query, "ip"),
                Or(Get(r.headers, "x-forwarded-for"),
                   Or(Get(r.headers, "x-real-ip"), Str(DefaultIP))))
  IN  Str(RemoveFirst(Trim(Split(raw.v, ",")[1]), "::ffff:"))

\* lines 25-36: the query parameter, else the headers, cleaned up.
ResolveIP(r) ==
  IF Truthy(Get(r.query, "ip")) THEN Get(r.query, "ip")
  ELSE LET raw == Or(Get(r.headers, "x-forwarded-for"),
                     Or(Get(r.headers, "x-real-ip"), Str(DefaultIP)))
           first == Trim(Split(raw.v, ",")[1])
       IN  Str(RemoveFirst(first, "::ffff:"))

\* [0-9]{1,3} at position i: the lengths n it can take.
DigitRun(s, i) ==
  {n \in 1..3 : i + n - 1 <= Len(s) /\ \A k \in i..(i + n - 1) : IsDigit(CharAt(s, k))}

\* (?:[0-9]{1,3}\.){k}[0-9]{1,3}$ matched from position i.
RECURSIVE MatchFrom(_, _, _)
MatchFrom(s, i, k) ==
  IF k = 0 THEN \E n \in DigitRun(s, i) : i + n - 1 = Len(s)
  ELSE \E n \in DigitRun(s, i) :
         /\ i + n <= Len(s)
         /\ CharAt(s, i + n) = "."
         /\ MatchFrom(s, i + n + 1, k - 1)

\* ipRegexTest with every octet also required to be at most 255
ipRegexTest_RangeChecked(s) ==
  /\ MatchFrom(s, 1, 3)
  /\ \A i \in 1..4 : ToNumber(Split(s, ".")[i]) <= 255

\* /^(?:[0-9]{1,3}\.){3}[0-9]{1,3}$/.test(s)
ipRegexTest(s) == MatchFrom(s, 1, 3)

(***************************************************************************)
(* Helper functions (lines 193-419)                                        *)
(***************************************************************************)
UpperLetters == "ABCDEFGHIJKLMNOPQRSTUVWXYZ"

LowerLetters == "abcdefghijklmnopqrstuvwxyz"

\* c.charCodeAt() of a letter or a digit (the characters of the model's
\* country codes).
CharCode(c) ==
  IF Includes(UpperLetters, c) THEN 64 + IndexOf(UpperLetters, c)
  ELSE IF Includes(LowerLetters, c) THEN 96 + IndexOf(LowerLetters, c)
  ELSE 47 + IndexOf("0123456789", c)

UpperChar(c) ==
  IF Includes(LowerLetters, c) THEN CharAt(UpperLetters, IndexOf(LowerLetters, c)) ELSE c

LowerChar(c) ==
  IF Includes(UpperLetters, c) THEN CharAt(LowerLetters, IndexOf(UpperLetters, c)) ELSE c

RECURSIVE ToLowerCase(_)
ToLowerCase(s) ==
  IF Len(s) = 0 THEN "" ELSE LowerChar(CharAt(s, 1)) \o ToLowerCase(SubSeq(s, 2, Len(s)))

FlagPlaceholder == "[flag]"

\* String.fromCodePoint of one code point, written as a numeric reference.
FromCodePoint(n) == "&#" \o NatToString(n) \o ";"

RECURSIVE FlagOf(_)
FlagOf(s) ==
  IF Len(s) = 0 THEN ""
  ELSE FromCodePoint(127397 + CharCode(UpperChar(CharAt(s, 1)))) \o FlagOf(SubSeq(s, 2, Len(s)))

\* lines 194-205; a countryCode that is no string makes toUpperCase throw,
\* which the function's own catch turns into the placeholder.
getCountryFlag(countryCode) ==
  IF ~Truthy(countryCode) THEN FlagPlaceholder
  ELSE IF ~IsStr(countryCode) THEN FlagPlaceholder
  ELSE FlagOf(countryCode.v)

\* lines 207-214
getIPType(addr) ==
  LET firstOctet == ToNumber(Split(addr, ".")[1])
  IN  IF firstOctet <= 127 THEN "Class A (Large networks)"
      ELSE IF firstOctet <= 191 THEN "Class B (Medium networks)"
      ELSE IF firstOctet <= 223 THEN "Class C (Small networks)"
      ELSE IF firstOctet <= 239 THEN "Class D (Multicast)"
      ELSE "Class E (Experimental)"

\* ip.split('.').map(Number)
Parts(addr) == LET p == Split(addr, ".") IN [i \in 1..Len(p) |-> ToNumber(p[i])]

\* isPrivateIP with the upper end of 172.16.0.0/12 one too far
isPrivateIP_WideB(addr) ==
  LET parts == [i \in 1..Len(Split(addr, ".")) |-> ToNumber(Split(addr, ".")[i])]
  IN  \/ parts[1] = 10
      \/ (parts[1] = 172 /\ parts[2] >= 16 /\ parts[2] <= 32)
      \/ (parts[1] = 192 /\ parts[2] = 168)

\* lines 216-221
isPrivateIP(addr) ==
  LET parts == Parts(addr)
  IN  \/ parts[1] = 10
      \/ (parts[1] = 172 /\ parts[2] >= 16 /\ parts[2] <= 31)
      \/ (parts[1] = 192 /\ parts[2] = 168)

\* lines 223-226
isReservedIP(addr) ==
  LET parts == Parts(addr)
  IN  parts[1] = 0 \/ parts[1] >= 224

\* lines 228-232
isBogonIP(addr) ==
  LET parts == Parts(addr)
  IN  parts[1] = 127 \/ (parts[1] = 169 /\ parts[2] = 254)

RiskPrivate == "Safe (Private Network)"

RiskReserved == "Caution (Reserved IP)"

RiskBogon == "Warning (Bogon IP)"

RiskPublic == "Moderate (Public IP)"

\* assessRisk without the test for private addresses
assessRisk_NoPrivate(addr) ==
  IF isReservedIP(addr) THEN RiskReserved
  ELSE IF isBogonIP(addr) THEN RiskBogon
  ELSE RiskPublic

\* lines 234-239
assessRisk(addr) ==
  IF isPrivateIP(addr) THEN RiskPrivate
  ELSE IF isReservedIP(addr) THEN RiskReserved
  ELSE IF isBogonIP(addr) THEN RiskBogon
  ELSE RiskPublic

\* lines 241-245
getSecurityRecommendations(addr) ==
  IF isPrivateIP(addr) THEN <<"Safe for internal networks">>
  ELSE IF isReservedIP(addr) THEN <<"This IP range is reserved">>
  ELSE <<"Use firewall protection", "Enable security monitoring", "Use VPN for privacy">>

\* keywords.some(keyword => s.includes(keyword))
IncludesAny(s, keywords) == \E k \in keywords : Includes(s, k)

\* lines 247-257 (isp a truthy string, or falsy)
classifyISP(isp) ==
  IF ~Truthy(isp) THEN "Unknown"
  ELSE LET ispLower == ToLowerCase(isp.v)
       IN  IF IncludesAny(ispLower, {"mobile", "wireless"}) THEN "Mobile Carrier"
           ELSE IF IncludesAny(ispLower, {"comcast", "att", "verizon"}) THEN "Residential ISP"
           ELSE IF IncludesAny(ispLower, {"google", "aws", "azure"}) THEN "Cloud Provider"
           ELSE IF IncludesAny(ispLower, {"host", "server"}) THEN "Hosting Provider"
           ELSE IF IncludesAny(ispLower, {"education", "university"}) THEN "Educational"
           ELSE IF IncludesAny(ispLower, {"government", "gov"}) THEN "Government"
           ELSE "Internet Service Provider"

\* lines 259-263
isMobileCarrier(isp) ==
  IF ~Truthy(isp) THEN "Unknown"
  ELSE IF IncludesAny(ToLowerCase(isp.v),
                      {"mobile", "wireless", "cellular", "vodafone", "t-mobile", "verizon wireless"})
       THEN "Yes" ELSE "No"

\* lines 265-269
isHostingProvider(isp) ==
  IF ~Truthy(isp) THEN "Unknown"
  ELSE IF IncludesAny(ToLowerCase(isp.v),
                      {"host", "server", "data center", "cloud", "amazon", "google cloud",
                       "digitalocean", "vultr"})
       THEN "Yes" ELSE "No"

\* table[key] || fallback, for a table keyed by strings.
Lookup(table, key, fallback) ==
  IF IsStr(key) /\ key.v \in DOMAIN table THEN table[key.v] ELSE fallback

continents ==
  [c \in {"US", "CA", "MX"} |-> "North America"] @@
  [c \in {"GB", "DE", "FR", "IT", "ES"} |-> "Europe"] @@
  [c \in {"CN", "JP", "IN", "KR", "SG"} |-> "Asia"] @@
  [c \in {"BR", "AR", "CL"} |-> "South America"] @@
  [c \in {"AU", "NZ"} |-> "Oceania"] @@
  [c \in {"ZA", "EG", "NG", "KE"} |-> "Africa"]

\* lines 271-281 (each entry carries its country's flag in the source)
getContinent(countryCode) ==
  IF IsStr(countryCode) /\ countryCode.v \in DOMAIN continents
  THEN continents[countryCode.v] \o " " \o countryCode.v
  ELSE "Unknown"

languages ==
  ("US" :> "English") @@ ("GB" :> "English") @@ ("CN" :> "Chinese") @@
  ("JP" :> "Japanese") @@ ("DE" :> "German") @@ ("FR" :> "French") @@
  ("ES" :> "Spanish") @@ ("IT" :> "Italian") @@ ("IN" :> "Hindi, English") @@
  ("BR" :> "Portuguese") @@ ("RU" :> "Russian") @@ ("KR" :> "Korean") @@
  ("AR" :> "Arabic") @@ ("NL" :> "Dutch")

\* lines 283-291
getLanguages(countryCode) == Lookup(languages, countryCode, "Various languages")

currencies ==
  ("US" :> "USD") @@ ("GB" :> "GBP") @@ ("EU" :> "EUR") @@
  ("JP" :> "JPY") @@ ("CN" :> "CNY") @@ ("IN" :> "INR") @@
  ("CA" :> "CAD") @@ ("AU" :> "AUD") @@ ("CH" :> "CHF") @@
  ("BR" :> "BRL") @@ ("RU" :> "RUB") @@ ("KR" :> "KRW")

\* lines 293-301
getCurrencyInfo(countryCode) == Lookup(currencies, countryCode, "Local currency")

codes ==
  ("US" :> "+1") @@ ("GB" :> "+44") @@ ("CN" :> "+86") @@
  ("JP" :> "+81") @@ ("IN" :> "+91") @@ ("DE" :> "+49") @@
  ("FR" :> "+33") @@ ("IT" :> "+39") @@ ("ES" :> "+34") @@
  ("BR" :> "+55")

\* lines 303-309
getCallingCode(countryCode) == Lookup(codes, countryCode, "Unknown")

emojis ==
  ("US" :> "statue") @@ ("GB" :> "crown") @@ ("CN" :> "dragon") @@
  ("JP" :> "japan") @@ ("IN" :> "elephant") @@ ("FR" :> "baguette") @@
  ("IT" :> "pizza") @@ ("DE" :> "beer") @@ ("BR" :> "dancer") @@
  ("AU" :> "kangaroo")

\* lines 311-317
getRegionalEmoji(countryCode) == Lookup(emojis, countryCode, "globe")

\* lines 319-326
estimateUsers(asn) ==
  IF ~Truthy(asn) THEN "Unknown"
  ELSE IF Includes(asn.v, "AS15169") THEN "Millions (Google)"
  ELSE IF Includes(asn.v, "AS32934") THEN "Millions (Facebook)"
  ELSE IF Includes(asn.v, "AS8075") THEN "Millions (Microsoft)"
  ELSE IF Includes(asn.v, "AS4134") THEN "Millions (China Telecom)"
  ELSE "Thousands to Millions"

\* lines 328-333
classifyNetwork(addr) ==
  LET firstOctet == ToNumber(Split(addr, ".")[1])
  IN  IF firstOctet <= 127 THEN "Large network (16M+ hosts)"
      ELSE IF firstOctet <= 191 THEN "Medium network (65K hosts)"
      ELSE "Small network (254 hosts)"

\* lines 335-341
classifyNetworkSize(addr) ==
  LET firstOctet == ToNumber(Split(addr, ".")[1])
  IN  IF firstOctet = 10 THEN "Very Large (Private)"
      ELSE IF firstOctet <= 127 THEN "Massive (16M hosts)"
      ELSE IF firstOctet <= 191 THEN "Large (65K hosts)"
      ELSE "Small (254 hosts)"

\* lines 343-351
getTimezoneEmoji(timezone) ==
  IF ~Truthy(timezone) THEN "clock"
  ELSE IF Includes(timezone.v, "Pacific") THEN "wave"
  ELSE IF Includes(timezone.v, "America") THEN "US"
  ELSE IF Includes(timezone.v, "Europe") THEN "EU"
  ELSE IF Includes(timezone.v, "Asia") THEN "asia"
  ELSE IF Includes(timezone.v, "Australia") THEN "AU"
  ELSE "clock"

\* Math.abs of a number
Abs(n) == IF n < 0 THEN 0 - n ELSE n

\* Latitudes are whole degrees here; lat is Num(n), Undefined or Null.
\* lines 353-360
calculateDistanceFromEquator(lat) ==
  IF ~Truthy(lat) THEN "Unknown"
  ELSE LET distance == Abs(lat.v)
       IN  IF distance < 10 THEN "Near equator"
           ELSE IF distance < 30 THEN "Tropical zone"
           ELSE IF distance < 60 THEN "Temperate zone"
           ELSE "Polar zone"

HemisphereNorth == "Northern"

HemisphereSouth == "Southern"

\* lines 362-365
getHemisphere(lat) ==
  IF ~Truthy(lat) THEN "Unknown"
  ELSE IF lat.v >= 0 THEN HemisphereNorth ELSE HemisphereSouth

\* lines 367-374 (absLat < 23.5 over whole degrees: 2 * absLat < 47)
getClimateZone(lat) ==
  IF ~Truthy(lat) THEN "Unknown"
  ELSE LET absLat == Abs(lat.v)
       IN  IF 2 * absLat < 47 THEN "Tropical"
           ELSE IF absLat < 35 THEN "Subtropical"
           ELSE IF absLat < 60 THEN "Temperate"
           ELSE "Polar"

landmarks ==
  [c \in {"United States"} |-> <<"Statue of Liberty", "Golden Gate Bridge", "White House">>] @@
  [c \in {"France"} |-> <<"Eiffel Tower", "Louvre Museum", "Notre Dame Cathedral">>] @@
  [c \in {"China"} |-> <<"Great Wall", "Forbidden City", "Terracotta Army">>] @@
  [c \in {"Japan"} |-> <<"Mount Fuji", "Tokyo Tower", "Fushimi Inari Shrine">>] @@
  [c \in {"India"} |-> <<"Taj Mahal", "Gateway of India", "Red Fort">>] @@
  [c \in {"United Kingdom"} |-> <<"Big Ben", "London Eye", "Buckingham Palace">>] @@
  [c \in {"Italy"} |-> <<"Colosseum", "Leaning Tower", "Venice Canals">>] @@
  [c \in {"Brazil"} |-> <<"Christ the Redeemer", "Amazon Rainforest", "Copacabana Beach">>]

StrArr(items) == Arr([i \in 1..Len(items) |-> Str(items[i])])

\* lines 376-391: a string when the country is missing, an array otherwise.
getFamousLandmarks(country, city) ==
  IF ~Truthy(country) THEN Str("Unknown")
  ELSE IF IsStr(country) /\ country.v \in DOMAIN landmarks THEN StrArr(landmarks[country.v])
  ELSE StrArr(<<"Local attractions">>)

\* lines 393-404
getSpecialNotes(addr, d) ==
  LET isp == Get(d, "isp")
      country == Get(d, "country")
      notes ==
        (IF isPrivateIP(addr) THEN <<"Private network IP">> ELSE <<>>) \o
        (IF Truthy(isp) /\ Includes(isp.v, "Google") THEN <<"Google infrastructure">> ELSE <<>>) \o
        (IF Truthy(isp) /\ Includes(isp.v, "Amazon") THEN <<"AWS cloud services">> ELSE <<>>) \o
        (IF IsStr(country) /\ country.v = "United States"
           THEN <<"US-based infrastructure">> ELSE <<>>) \o
        (IF IsStr(country) /\ country.v = "China"
           THEN <<"China-based infrastructure">> ELSE <<>>)
  IN  IF Len(notes) = 0 THEN <<"Standard public IP address">> ELSE notes

facts ==
  <<"IP stands for Internet Protocol",
    "IPv4 has 4.3 billion possible addresses",
    "IPv6 has 340 undecillion possible addresses",
    "The first IP address was 0.0.0.0",
    "Your IP can reveal your approximate location",
    "There are IP addresses in space (satellites)",
    "IP addresses are assigned by IANA",
    "IP tracing is used for security and analytics">>

\* lines 406-419; rnd is Math.floor(Math.random() * facts.length)
getRandomFunFact(d, rnd) == facts[rnd + 1]

(***************************************************************************)
(* The handler (lines 3-191)                                               *)
(***************************************************************************)
\* data.key of response.data: a property of a primitive string is undefined.
Field(data, key) == IF data.ty = "object" THEN Get(data.v, key) ELSE Undefined

\* The zones the runtime's toLocaleString accepts, as far as the model's
\* upstream data names zones.
ValidTimeZones == {"America/New_York", "Europe/Paris", "Asia/Tokyo", "Australia/Sydney", "UTC"}

\* The first exception the composition of completeInfo (lines 62-178)
\* throws for the upstream fields d, "" when it throws none.
ComposeError(d) ==
  LET timezone == Get(d, "timezone")
      isp == Get(d, "isp")
      as == Get(d, "as")
  IN  IF timezone.ty # "undefined" /\ ToStr(timezone) \notin ValidTimeZones
        THEN "Invalid time zone specified: " \o ToStr(timezone)           \* line 96
      ELSE IF Truthy(timezone) /\ ~IsStr(timezone)
        THEN "timezone.includes is not a function"                       \* line 99
      ELSE IF Truthy(isp) /\ ~IsStr(isp)
        THEN "isp.toLowerCase is not a function"                         \* line 115
      ELSE IF Truthy(as) /\ ~IsStr(as)
        THEN "ipData.as.split is not a function"                         \* line 116
      ELSE ""

StepKeys ==
  <<"1 Basic IP Information", "2 Geolocation Details", "3 Timezone Information",
    "4 Security Assessment", "5 Network Information", "6 ISP & Organization",
    "7 Regional Info", "8 Technical Analysis", "9 Distance & Location",
    "10 Fun Facts & Trivia">>

YesNo(b) == Str(IF b THEN "Yes" ELSE "No")

\* lines 62-178: completeInfo, for an address, the upstream fields d and
\* the random index rnd of the fun fact.
Compose(addr, d, rnd) ==
  LET country == Get(d, "country")
      countryCode == Get(d, "countryCode")
      city == Get(d, "city")
      lat == Get(d, "lat")
      lon == Get(d, "lon")
      timezone == Get(d, "timezone")
      isp == Get(d, "isp")
      org == Get(d, "org")
      as == Get(d, "as")
      flag == getCountryFlag(countryCode)
      mapUrl == "https://maps.google.com/?q=" \o ToStr(lat) \o "," \o ToStr(lon)
      step1 == Obj(
        ("ip" :> Str(addr)) @@
        ("status" :> Str("Valid IPv4 Address")) @@
        ("version" :> Str("IPv4")) @@
        ("type" :> Str(getIPType(addr))) @@
        ("reverse_dns" :> Or(Get(d, "reverse"), Str("Not available"))) @@
        ("query_status" :> Get(d, "status")))
      step2 == Obj(
        ("country" :> Str(ToStr(country) \o " " \o flag)) @@
        ("country_code" :> countryCode) @@
        ("region" :> Get(d, "regionName")) @@
        ("city" :> city) @@
        ("zip_code" :> Get(d, "zip")) @@
        ("coordinates" :> Obj(
           ("latitude" :> lat) @@
           ("longitude" :> lon) @@
           ("accuracy" :> Str("City level")) @@
           ("map_url" :> Str(mapUrl)))) @@
        ("continent" :> Str(getContinent(countryCode))))
      step3 == Obj(
        ("timezone" :> timezone) @@
        ("current_time" :> Str("<current time>")) @@
        ("utc_offset" :> Get(d, "offset")) @@
        ("is_dst" :> YesNo(Truthy(Get(d, "dst")))) @@
        ("timezone_emoji" :> Str(getTimezoneEmoji(timezone))))
      step4 == Obj(
        ("threat_level" :> Str("Medium (Public IP)")) @@
        ("is_private" :> YesNo(isPrivateIP(addr))) @@
        ("is_reserved" :> YesNo(isReservedIP(addr))) @@
        ("is_bogon" :> YesNo(isBogonIP(addr))) @@
        ("risk_assessment" :> Str(assessRisk(addr))) @@
        ("recommendations" :> StrArr(getSecurityRecommendations(addr))))
      step5 == Obj(
        ("asn" :> Or(as, Str("Not available"))) @@
        ("organization" :> Or(org, Str("Unknown"))) @@
        ("isp" :> Or(isp, Str("Unknown"))) @@
        ("service_type" :> Str(classifyISP(isp))) @@
        ("network_range" :> Str(IF Truthy(as) THEN Split(as.v, " ")[1] ELSE "Unknown")))
      step6 == Obj(
        ("internet_service_provider" :> isp) @@
        ("organization_name" :> org) @@
        ("autonomous_system" :> as) @@
        ("network_type" :> Str(classifyNetwork(addr))) @@
        ("mobile_carrier" :> Str(isMobileCarrier(isp))) @@
        ("hosting_provider" :> Str(isHostingProvider(isp))))
      step7 == Obj(
        ("continent" :> Str(getContinent(countryCode))) @@
        ("languages" :> Str(getLanguages(countryCode))) @@
        ("currency" :> Str(getCurrencyInfo(countryCode))) @@
        ("calling_code" :> Str(getCallingCode(countryCode))) @@
        ("regional_emoji" :> Str(getRegionalEmoji(countryCode))))
      step8 == Obj(
        ("ip_class" :> Str(getIPType(addr))) @@
        ("estimated_users" :> Str(estimateUsers(as))) @@
        ("network_size" :> Str(classifyNetworkSize(addr))) @@
        ("routing_status" :> Str("Global internet routing")) @@
        ("special_notes" :> StrArr(getSpecialNotes(addr, d))))
      step9 == Obj(
        ("distance_from_equator" :> Str(calculateDistanceFromEquator(lat))) @@
        ("hemisphere" :> Str(getHemisphere(lat))) @@
        ("famous_landmarks" :> getFamousLandmarks(country, city)) @@
        ("climate_zone" :> Str(getClimateZone(lat))))
      step10 == StrArr(
        <<"Located in " \o ToStr(city) \o ", " \o ToStr(country) \o " " \o flag,
          "ISP: " \o ToStr(Or(isp, Str("Unknown"))),
          "Timezone: " \o ToStr(timezone),
          "Organization: " \o ToStr(Or(org, Str("Not specified"))),
          "Network: " \o ToStr(Or(as, Str("Unknown"))),
          "IP addresses route internet traffic globally!",
          "Always protect your IP address for security",
          "This IP is in the " \o getHemisphere(lat) \o " hemisphere",
          getRandomFunFact(d, rnd)>>)
      summary == Obj(
        ("location" :> Str(ToStr(Or(city, Str("Unknown"))) \o ", "
                           \o ToStr(Or(country, Str("Unknown"))) \o " " \o flag)) @@
        ("isp" :> Or(isp, Str("Unknown"))) @@
        ("coordinates" :> Str(ToStr(lat) \o ", " \o ToStr(lon))) @@
        ("timezone" :> timezone) @@
        ("security_level" :> Str(assessRisk(addr))) @@
        ("status" :> Str("Analysis complete - 10 steps detailed")))
      quick_links == Obj(
        ("view_on_map" :> Str(mapUrl)) @@
        ("whois_lookup" :> Str("https://whois.domaintools.com/" \o addr)) @@
        ("speed_test" :> Str("https://speedtest.net")))
  IN  Obj(
        ("success" :> Bool(TRUE)) @@
        ("message" :> Str("IP information retrieved successfully!")) @@
        ("requested_ip" :> Str(addr)) @@
        ("timestamp" :> Str("<now>")) @@
        ("api_version" :> Str("1.0")) @@
        ("steps" :> Obj(
           (StepKeys[1] :> step1) @@ (StepKeys[2] :> step2) @@ (StepKeys[3] :> step3) @@
           (StepKeys[4] :> step4) @@ (StepKeys[5] :> step5) @@ (StepKeys[6] :> step6) @@
           (StepKeys[7] :> step7) @@ (StepKeys[8] :> step8) @@ (StepKeys[9] :> step9) @@
           (StepKeys[10] :> step10))) @@
        ("summary" :> summary) @@
        ("quick_links" :> quick_links))

\* res.json(x) sends JSON.stringify(x): a key whose value is undefined is
\* left out of the text, at every depth.
RECURSIVE Serialize(_)
Serialize(x) ==
  CASE x.ty = "object" ->
         Obj([k \in {key \in DOMAIN x.v : x.v[key].ty # "undefined"} |-> Serialize(x.v[k])])
    [] x.ty = "array" ->
         Arr([i \in DOMAIN x.v |-> IF x.v[i].ty = "undefined" THEN Null ELSE Serialize(x.v[i])])
    [] OTHER -> x

NoBody == [ty |-> "empty"]

Pending == [ty |-> "pending"]

\* CorsHeaders without Access-Control-Allow-Headers
CorsHeaders_NoAllowHeaders ==
  ("Access-Control-Allow-Origin" :> "*") @@
  ("Access-Control-Allow-Methods" :> "GET, OPTIONS")

\* lines 5-7
CorsHeaders ==
  ("Access-Control-Allow-Origin" :> "*") @@
  ("Access-Control-Allow-Methods" :> "GET, OPTIONS") @@
  ("Access-Control-Allow-Headers" :> "Content-Type")

\* lines 17-20
MethodNotAllowedBody ==
  Obj(("error" :> Str("Method not allowed")) @@
      ("message" :> Str("Only GET requests are supported")))

\* lines 41-45
InvalidIPBody ==
  Obj(("error" :> Str("Invalid IP address format")) @@
      ("tip" :> Str("Please provide a valid IPv4 address like 8.8.8.8")) @@
      ("example" :> Str("https://your-api.vercel.app/api/ipinfo?ip=8.8.8.8")))

\* UpstreamFailedBody that never passes the upstream's message on
UpstreamFailedBody_Fallback(data) ==
  Obj(("error" :> Str("Failed to fetch IP information")) @@
      ("message" :> Str("Unknown error")))

\* lines 55-58
UpstreamFailedBody(data) ==
  Obj(("error" :> Str("Failed to fetch IP information")) @@
      ("message" :> Or(Field(data, "message"), Str("Unknown error"))))

\* ErrorBody that hides the underlying message
ErrorBody_Generic(message) ==
  Obj(("error" :> Str("Failed to fetch IP information")) @@
      ("message" :> Str("Internal error")) @@
      ("tip" :> Str("Please check the IP address and try again")) @@
      ("support" :> Str("Use format: ?ip=8.8.8.8 or no parameter for your IP")))

\* lines 184-189
ErrorBody(message) ==
  Obj(("error" :> Str("Failed to fetch IP information")) @@
      ("message" :> Str(message)) @@
      ("tip" :> Str("Please check the IP address and try again")) @@
      ("support" :> Str("Use format: ?ip=8.8.8.8 or no parameter for your IP")))

\* res.status(status).json(body) / res.status(status).end()
Respond(status, body) ==
  /\ resStatus' = status
  /\ resBody' = IF body.ty = "empty" THEN NoBody ELSE Serialize(body)
  /\ sent' = sent + 1
  /\ pc' = "done"

\* lines 182-190: the catch block
Catch(message) ==
  /\ caught' = Str(message)
  /\ Respond(500, ErrorBody(message))

\* HandleRequest without the 405 for methods other than GET
HandleRequest_AnyMethod ==
  /\ pc = "start"
  /\ resHeaders' = CorsHeaders
  /\ UNCHANGED <<req, ipData, arg, out>>
  /\ IF req.method = "OPTIONS"
       THEN Respond(200, NoBody) /\ UNCHANGED <<ip, calls, caught>>
     ELSE LET resolved == ResolveIP(req)
          IN  /\ ip' = resolved
              /\ UNCHANGED caught
              /\ IF ~ipRegexTest(resolved.v)
                   THEN Respond(400, InvalidIPBody) /\ UNCHANGED calls
                   ELSE /\ calls' = Append(calls, "http://ip-api.com/json/" \o resolved.v)
                        /\ pc' = "await"
                        /\ UNCHANGED <<resStatus, resBody, sent>>

\* lines 3-51: from the entry of the handler to its first response, or to
\* the await of axios.get.
HandleRequest ==
  /\ pc = "start"
  /\ resHeaders' = CorsHeaders
  /\ UNCHANGED <<req, ipData, arg, out>>
  /\ IF req.method = "OPTIONS"
       THEN Respond(200, NoBody) /\ UNCHANGED <<ip, calls, caught>>
     ELSE IF req.method # "GET"
       THEN Respond(405, MethodNotAllowedBody) /\ UNCHANGED <<ip, calls, caught>>
     ELSE LET resolved == ResolveIP(req)
          IN  /\ ip' = resolved
              /\ UNCHANGED caught
              /\ IF ~ipRegexTest(resolved.v)
                   THEN Respond(400, InvalidIPBody) /\ UNCHANGED calls
                   ELSE /\ calls' = Append(calls, "http://ip-api.com/json/" \o resolved.v)
                        /\ pc' = "await"
                        /\ UNCHANGED <<resStatus, resBody, sent>>

\* lines 51-180: axios.get resolved with a response whose data is one of
\* datas; Math.random (line 418, reached on success only) picks one of rnds.
AxiosResolve(datas, rnds) ==
  /\ pc = "await"
  /\ \E data \in datas :
       /\ ipData' = data
       /\ IF data.ty \in {"null", "undefined"}
            THEN Catch("Cannot read properties of " \o ToStr(data) \o " (reading 'status')")
          ELSE IF ~(IsStr(Field(data, "status")) /\ Field(data, "status").v = "success")
            THEN Respond(400, UpstreamFailedBody(data)) /\ UNCHANGED caught
          ELSE IF ComposeError(data.v) # ""
            THEN Catch(ComposeError(data.v))
          ELSE \E rnd \in rnds : Respond(200, Compose(ip.v, data.v, rnd)) /\ UNCHANGED caught
  /\ UNCHANGED <<req, ip, calls, resHeaders, arg, out>>

\* line 51 throwing: axios.get rejected with an error whose message is one
\* of messages.
AxiosReject(messages) ==
  /\ pc = "await"
  /\ \E message \in messages : Catch(message)
  /\ UNCHANGED <<req, ip, calls, ipData, resHeaders, arg, out>>

(***************************************************************************)
(* Requests and upstream behaviours                                        *)
(***************************************************************************)
Request(method, queryIp, xff, xri) ==
  [method |-> method,
   query |-> IF queryIp.ty = "undefined" THEN <<>> ELSE ("ip" :> queryIp),
   headers |-> (IF xff.ty = "undefined" THEN <<>> ELSE ("x-forwarded-for" :> xff)) @@
               (IF xri.ty = "undefined" THEN <<>> ELSE ("x-real-ip" :> xri))]

Methods == {"GET", "OPTIONS", "POST"}

\* ?ip= values: absent, empty, well-formed, out of range, malformed.
QueryIps ==
  {Undefined} \cup
  {Str(s) : s \in {"", "8.8.4.4", " 8.8.4.4", "999.999.999.999", "10.0.0.1", "1.2.3",
                   "::ffff:1.2.3.4", "abc"}}

\* The pieces header values are made of.
Chunks == {" ", ",", "::ffff:", "1.2.3.4", "x"}

MaxChunks == 2

RECURSIVE ChunkStrings(_)
ChunkStrings(n) ==
  IF n = 0 THEN {""} ELSE {""} \cup {s \o c : s \in ChunkStrings(n - 1), c \in Chunks}

ForwardedFors(n) == {Undefined} \cup {Str(s) : s \in ChunkStrings(n)}

RealIps == {Undefined} \cup {Str(s) : s \in {"", "5.6.7.8", " ::ffff:172.16.0.9 "}}

\* Every method and query with few headers; a GET without query parameter
\* with every header.
Requests ==
  {Request(m, q, f, r) : m \in Methods, q \in QueryIps,
                         f \in {Undefined, Str("::ffff:1.2.3.4")},
                         r \in {Undefined, Str("5.6.7.8")}}
  \cup
  {Request("GET", Undefined, f, r) : f \in ForwardedFors(MaxChunks), r \in RealIps}

\* What the geolocation service answers for 8.8.8.8 when every field is asked for.
GeoRecord ==
  ("status" :> Str("success")) @@
  ("country" :> Str("United States")) @@
  ("countryCode" :> Str("US")) @@
  ("region" :> Str("VA")) @@
  ("regionName" :> Str("Virginia")) @@
  ("city" :> Str("Ashburn")) @@
  ("zip" :> Str("20149")) @@
  ("lat" :> Num(39)) @@
  ("lon" :> Num(0 - 77)) @@
  ("timezone" :> Str("America/New_York")) @@
  ("offset" :> Num(0 - 14400)) @@
  ("dst" :> Bool(TRUE)) @@
  ("isp" :> Str("Google LLC")) @@
  ("org" :> Str("Google Public DNS")) @@
  ("as" :> Str("AS15169 Google LLC")) @@
  ("reverse" :> Str("dns.google")) @@
  ("query" :> Str("8.8.8.8"))

OptionalFields ==
  {"country", "countryCode", "regionName", "city", "zip", "lat", "lon", "timezone",
   "offset", "as", "org", "isp", "reverse"}

\* record without the keys of missing
Without(record, missing) == [k \in DOMAIN record \ missing |-> record[k]]

\* record with key set to value
With(record, key, value) == (key :> value) @@ record

\* Successful answers: complete, with one optional field missing, with all
\* of them missing, other places, and fields of unexpected content.
SuccessDatas ==
  {Obj(Without(GeoRecord, missing)) :
     missing \in {{}} \cup {{f} : f \in OptionalFields} \cup {OptionalFields}}
  \cup
  {Obj(With(GeoRecord, "lat", lat)) : lat \in {Num(0), Num(0 - 34), Null}}
  \cup
  {Obj(With(With(With(GeoRecord, "country", Str("France")), "countryCode", Str("fr")),
            "timezone", Str("Europe/Paris"))),
   Obj(With(GeoRecord, "timezone", Str("Mars/Olympus"))),
   Obj(With(GeoRecord, "as", Num(15169))),
   Obj(With(GeoRecord, "isp", Num(7)))}

\* Answers that report no success: a status other than "success" or none,
\* with a message, an empty message or none.
FailDatas ==
  {Obj(fields @@ message) :
     fields \in {("status" :> Str("fail")) @@ ("query" :> Str("10.0.0.1")), <<>>},
     message \in {<<>>, ("message" :> Str("")), ("message" :> Str("private range"))}}

\* Bodies that are no JSON object: the text of a body that is not JSON, and null.
OtherDatas == {Str("<html>Service Unavailable</html>"), Null}

IpDatas == SuccessDatas \cup FailDatas \cup OtherDatas

\* Math.floor(Math.random() * facts.length)
RandomIndexes == 0..(Len(facts) - 1)

\* error.message of a rejected axios.get
ErrorMessages ==
  {"Network Error", "Request failed with status code 429", "getaddrinfo ENOTFOUND ip-api.com"}

(***************************************************************************)
(* The handler's specification                                             *)
(***************************************************************************)
Idle ==
  /\ ip = Undefined
  /\ calls = <<>>
  /\ ipData = Pending
  /\ caught = Undefined
  /\ resHeaders = <<>>
  /\ resStatus = 0
  /\ resBody = NoBody
  /\ sent = 0

Init ==
  /\ pc = "start"
  /\ req \in Requests
  /\ Idle
  /\ arg = Undefined
  /\ out = Undefined

Next ==
  \/ HandleRequest
  \/ AxiosResolve(IpDatas, RandomIndexes)
  \/ AxiosReject(ErrorMessages)

Spec == Init /\ [][Next]_vars

(***************************************************************************)
(* The validator over many strings: GET ?ip=<s> without forwarding headers *)
(* against an upstream that answers with the full record or fails.         *)
(***************************************************************************)
Alphabet == {"1", ".", "x"}

MaxStrLen == 8

\* every string over Alphabet of length n
RECURSIVE StringsOfLen(_)
StringsOfLen(n) ==
  IF n = 0 THEN {""} ELSE {s \o c : s \in StringsOfLen(n - 1), c \in Alphabet}

Groups == {"", "7", "999", "1000", "4x"}

\* n groups joined by dots
RECURSIVE Dotted(_)
Dotted(n) ==
  IF n = 1 THEN Groups ELSE {d \o "." \o g : d \in Dotted(n - 1), g \in Groups}

Affixes == {"", " ", "\n"}

\* every string over Alphabet of length <= maxLen, and dotted strings of
\* three to five groups
CandidateAddresses(maxLen) ==
  UNION {StringsOfLen(n) : n \in 0..maxLen}
  \cup Dotted(3) \cup Dotted(5)
  \cup {p \o d \o q : p \in Affixes, q \in Affixes, d \in Dotted(4)}

InitValidate ==
  /\ pc = "start"
  /\ req \in {Request("GET", Str(s), Undefined, Undefined) : s \in CandidateAddresses(MaxStrLen)}
  /\ Idle
  /\ arg = Undefined
  /\ out = Undefined

NextValidate ==
  \/ HandleRequest
  \/ AxiosResolve({Obj(GeoRecord)}, {0})
  \/ AxiosReject({"Network Error"})

SpecValidate == InitValidate /\ [][NextValidate]_vars

(***************************************************************************)
(* The classification helpers on their own                                 *)
(***************************************************************************)
MaxOctet == 260

FirstOctets(maxOctet) == 0..maxOctet \cup {999}

SecondOctets == {0, 15, 16, 31, 32, 167, 168, 169, 253, 254, 255, 999}

LastOctets == {<<1, 254>>, <<255, 999>>}

\* an octet written with leading zeros to three digits
Pad3(n) == IF n < 10 THEN "00" \o NatToString(n)
           ELSE IF n < 100 THEN "0" \o NatToString(n) ELSE NatToString(n)

\* the dotted quad of four octets, plain or zero-padded
AddressText(o, padded) ==
  IF padded
  THEN Pad3(o[1]) \o "." \o Pad3(o[2]) \o "." \o Pad3(o[3]) \o "." \o Pad3(o[4])
  ELSE NatToString(o[1]) \o "." \o NatToString(o[2]) \o "." \o NatToString(o[3])
       \o "." \o NatToString(o[4])

\* validated addresses, each with the octets it was written from
AddressArgs(maxOctet) ==
  {a \in {[kind |-> "address", octets |-> <<o1, o2, last[1], last[2]>>,
           text |-> AddressText(<<o1, o2, last[1], last[2]>>, padded)] :
            o1 \in FirstOctets(maxOctet), o2 \in SecondOctets, last \in LastOctets, padded \in BOOLEAN} :
     ipRegexTest(a.text)}

MaxLat == 90

LatitudeArgs(maxLat) ==
  {[kind |-> "latitude", lat |-> l] :
     l \in {Num(n) : n \in (0 - maxLat)..maxLat} \cup {Undefined, Null}}

InitClassify ==
  /\ pc = "classify"
  /\ req = Request("GET", Undefined, Undefined, Undefined)
  /\ Idle
  /\ arg \in AddressArgs(MaxOctet) \cup LatitudeArgs(MaxLat)
  /\ out = Undefined

\* the address helpers applied to arg.text
ClassifyAddress ==
  /\ pc = "classify"
  /\ arg.kind = "address"
  /\ out' = [type |-> getIPType(arg.text),
             private |-> isPrivateIP(arg.text),
             reserved |-> isReservedIP(arg.text),
             bogon |-> isBogonIP(arg.text),
             risk |-> assessRisk(arg.text)]
  /\ pc' = "classified"
  /\ UNCHANGED <<req, ip, calls, ipData, caught, resHeaders, resStatus, resBody, sent, arg>>

\* the latitude helpers applied to arg.lat
ClassifyLatitude ==
  /\ pc = "classify"
  /\ arg.kind = "latitude"
  /\ out' = [hemisphere |-> getHemisphere(arg.lat),
             distance |-> calculateDistanceFromEquator(arg.lat),
             climate |-> getClimateZone(arg.lat)]
  /\ pc' = "classified"
  /\ UNCHANGED <<req, ip, calls, ipData, caught, resHeaders, resStatus, resBody, sent, arg>>

NextClassify == ClassifyAddress \/ ClassifyLatitude

SpecClassify == InitClassify /\ [][NextClassify]_vars

(***************************************************************************)
(* Properties                                                              *)
(***************************************************************************)
\* s is exactly four dot-separated groups of one to three decimal digits
IsDottedQuad(s) ==
  LET groups == Split(s, ".")
  IN  /\ Len(groups) = 4
      /\ \A i \in 1..4 :
           /\ Len(groups[i]) \in 1..3
           /\ \A k \in 1..Len(groups[i]) : CharAt(groups[i], k) \in {Digits[d] : d \in 1..10}

\* the handler ran for a GET request
HandledGet == req.method = "GET" /\ pc \in {"await", "done"}

\* C1: for every GET request the validator accepts the resolved address
\* exactly when the whole string is four dot-separated groups of one to
\* three digits: such a string (octets above 255 included) is passed on to
\* the geolocation call and not answered by the validator; any other string
\* is answered 400 with an error body carrying an example, and no call.
C1_ValidatorAcceptsExactlyDottedQuads ==
  HandledGet =>
    IF IsDottedQuad(ip.v)
    THEN /\ calls = <<"http://ip-api.com/json/" \o ip.v>>
         /\ pc = "await" => (sent = 0 /\ resStatus = 0)
         /\ ~(resStatus = 400 /\ resBody = Serialize(InvalidIPBody))
    ELSE /\ pc = "done"
         /\ resStatus = 400
         /\ sent = 1
         /\ resBody.ty = "object"
         /\ {"error", "example"} \subseteq DOMAIN resBody.v
         /\ calls = <<>>

\* C1 witness: an address with octets above 255 was accepted and its
\* lookup was issued.
C1_Witness ==
  /\ pc = "await"
  /\ req.method = "GET"
  /\ Get(req.query, "ip") = Str("999.999.999.999")
  /\ ip = Str("999.999.999.999")
  /\ calls = <<"http://ip-api.com/json/999.999.999.999">>

\* C4: the outbound request is issued at most once per invocation: exactly
\* once when the method is GET and the resolved address passes the
\* validation, never for OPTIONS, for another method (answered 405) or for
\* an address that fails the validation; a failed or rejected call is not
\* attempted again.
C4_AtMostOneOutboundCall ==
  /\ Len(calls) <= 1
  /\ pc = "start" => calls = <<>>
  /\ pc \in {"await", "done"} =>
       /\ (Len(calls) = 1) <=> (req.method = "GET" /\ IsDottedQuad(ip.v))
       /\ req.method = "OPTIONS" => calls = <<>>
       /\ req.method \notin {"GET", "OPTIONS"} => (calls = <<>> /\ resStatus = 405)

\* C4 witness: the only call was rejected and the invocation ended with it.
C4_Witness ==
  /\ pc = "done"
  /\ req.method = "GET"
  /\ ipData = Pending
  /\ caught = Str("Network Error")
  /\ Len(calls) = 1

\* C6: an OPTIONS request is answered 200 with an empty body and the three
\* CORS headers whatever its query and headers are, and no address is
\* resolved or validated for it.
C6_OptionsAnswered ==
  (req.method = "OPTIONS" /\ pc # "start") =>
    /\ pc = "done"
    /\ resStatus = 200
    /\ resBody = NoBody
    /\ sent = 1
    /\ DOMAIN resHeaders = {"Access-Control-Allow-Origin", "Access-Control-Allow-Methods",
                            "Access-Control-Allow-Headers"}
    /\ resHeaders["Access-Control-Allow-Origin"] = "*"
    /\ resHeaders["Access-Control-Allow-Methods"] = "GET, OPTIONS"
    /\ resHeaders["Access-Control-Allow-Headers"] = "Content-Type"
    /\ ip = Undefined
    /\ calls = <<>>

\* C6 witness: an OPTIONS request that carries a malformed ip parameter and
\* forwarding headers was answered.
C6_Witness ==
  /\ pc = "done"
  /\ req.method = "OPTIONS"
  /\ Get(req.query, "ip") = Str("abc")
  /\ "x-forwarded-for" \in DOMAIN req.headers
  /\ resStatus = 200

\* the helpers were applied to an address
ClassifiedAddress == pc = "classified" /\ arg.kind = "address"

\* the helpers were applied to a latitude
ClassifiedLatitude == pc = "classified" /\ arg.kind = "latitude"

\* C8 as claimed: getHemisphere reports northern for every latitude >= 0,
\* 0 included, and southern for every latitude < 0.
C8_HemisphereBoundaryInclusive ==
  (ClassifiedLatitude /\ arg.lat.ty = "number") =>
    /\ arg.lat.v >= 0 => out.hemisphere = HemisphereNorth
    /\ arg.lat.v < 0 => out.hemisphere = HemisphereSouth

\* C9: assessRisk returns one of the four labels with precedence
\* private > reserved > bogon > public.
C9_RiskPrecedence ==
  ClassifiedAddress =>
    /\ out.risk \in {RiskPrivate, RiskReserved, RiskBogon, RiskPublic}
    /\ out.private => out.risk = RiskPrivate
    /\ out.risk = RiskPrivate => out.private
    /\ out.risk = RiskReserved <=> (out.reserved /\ ~out.private)
    /\ out.risk = RiskBogon <=> (out.bogon /\ ~out.private /\ ~out.reserved)
    /\ out.risk = RiskPublic <=> (~out.private /\ ~out.reserved /\ ~out.bogon)

\* C9 witness: a private address was assessed.
C9_Witness ==
  /\ ClassifiedAddress
  /\ arg.text = "172.16.1.254"
  /\ arg.octets = <<172, 16, 1, 254>>
  /\ out.private
  /\ out.risk = RiskPrivate

\* C10: the three tests equal the range tests on the first two octets of
\* the address, whatever the third and fourth octets are.
C10_RangeTests ==
  ClassifiedAddress =>
    LET first == arg.octets[1]
        second == arg.octets[2]
    IN  /\ out.private <=> \/ first = 10
                           \/ (first = 172 /\ second \in 16..31)
                           \/ (first = 192 /\ second = 168)
        /\ out.reserved <=> (first = 0 \/ first >= 224)
        /\ out.bogon <=> (first = 127 \/ (first = 169 /\ second = 254))

\* C10 witness: an address of 169.254.0.0/16 whose last octets are 255 and
\* 999 was found bogon, neither private nor reserved.
C10_Witness ==
  /\ ClassifiedAddress
  /\ arg.octets = <<169, 254, 255, 999>>
  /\ out.bogon
  /\ ~out.private
  /\ ~out.reserved

\* a and b are the same JavaScript value
SameValue(a, b) == a.ty = b.ty /\ (a.ty \in {"undefined", "null"} \/ a.v = b.v)

\* the outbound call resolved with a JSON object that has a status field
\* other than "success"
UpstreamReportedFailure ==
  /\ pc = "done"
  /\ ipData.ty = "object"
  /\ "status" \in DOMAIN ipData.v
  /\ ~SameValue(ipData.v["status"], Str("success"))

\* the response is a 400 whose body has no steps and nothing of a success payload
Answered400WithoutSteps ==
  /\ resStatus = 400
  /\ sent = 1
  /\ resBody.ty = "object"
  /\ DOMAIN resBody.v \cap {"steps", "success", "summary", "quick_links", "requested_ip"} = {}
  /\ "error" \in DOMAIN resBody.v

\* C2 as claimed: on a status other than "success" the handler answers 400
\* without steps, and the body's message is the upstream's message whenever
\* the upstream sent one, the fallback text otherwise.
C2_MessageWhenPresent ==
  UpstreamReportedFailure =>
    /\ Answered400WithoutSteps
    /\ resBody.v["message"] =
         IF "message" \in DOMAIN ipData.v THEN ipData.v["message"] ELSE Str("Unknown error")

\* C2 amended: as claimed, but the body's message is the upstream's message
\* only when the upstream sent a non-empty one; an empty message is
\* replaced by the fallback text like a missing one.
C2_MessageWhenNonEmpty ==
  UpstreamReportedFailure =>
    /\ Answered400WithoutSteps
    /\ resBody.v["message"] =
         IF "message" \in DOMAIN ipData.v /\ ipData.v["message"] # Str("")
         THEN ipData.v["message"] ELSE Str("Unknown error")

\* C2 witness: the upstream reported a failure with a message, which the
\* 400 response carries.
C2_Witness ==
  /\ UpstreamReportedFailure
  /\ Get(ipData.v, "message") = Str("private range")
  /\ resStatus = 400
  /\ resBody.v["message"] = Str("private range")

\* the outbound call was rejected (network error, non-2xx)
CallRejected == pc = "done" /\ Len(calls) = 1 /\ ipData = Pending

\* the outbound call resolved with data that makes reading the status or
\* composing the payload throw
CompositionThrew ==
  /\ pc = "done"
  /\ \/ ipData.ty = "null"
     \/ /\ ipData.ty = "object"
        /\ SameValue(Get(ipData.v, "status"), Str("success"))
        /\ \/ Get(ipData.v, "timezone") = Str("Mars/Olympus")
           \/ Get(ipData.v, "as").ty = "number"
           \/ Get(ipData.v, "isp").ty = "number"

\* the response is a 500 whose JSON body carries the caught error's message
Answered500 ==
  /\ resStatus = 500
  /\ resBody.ty = "object"
  /\ {"error", "message"} \subseteq DOMAIN resBody.v
  /\ caught.ty = "string"
  /\ resBody.v["message"] = caught

\* every invocation that ended sent exactly one response, and none that
\* has not ended sent any
ExactlyOneResponse ==
  /\ sent <= 1
  /\ pc = "done" => sent = 1
  /\ pc \in {"start", "await"} => sent = 0

\* C3 as claimed: a rejected call, a malformed body and an exception
\* while composing each end in exactly one 500 response that carries the
\* error's message.
C3_EveryFailureIs500 ==
  /\ ExactlyOneResponse
  /\ CallRejected => (Answered500 /\ caught.v \in ErrorMessages)
  /\ CompositionThrew => Answered500
  /\ (pc = "done" /\ ipData.ty = "string") => Answered500
  /\ caught # Undefined => Answered500

\* C3 amended: a rejected call and an exception thrown while reading or
\* composing the payload each end in exactly one 500 response that carries
\* the error's message; a body that is not JSON reaches the handler as text,
\* throws nothing and is answered 400 with the fallback message.
C3_ThrownFailuresAre500 ==
  /\ ExactlyOneResponse
  /\ CallRejected => (Answered500 /\ caught.v \in ErrorMessages)
  /\ CompositionThrew => Answered500
  /\ (pc = "done" /\ ipData.ty = "string") =>
       (resStatus = 400 /\ resBody.v["message"] = Str("Unknown error") /\ caught = Undefined)
  /\ caught # Undefined => Answered500

\* C3 witness: composing the payload threw on the upstream's time zone and
\* the handler answered 500 once.
C3_Witness ==
  /\ pc = "done"
  /\ ipData.ty = "object"
  /\ Get(ipData.v, "timezone") = Str("Mars/Olympus")
  /\ resStatus = 500
  /\ sent = 1
  /\ resBody.v["message"] = Str("Invalid time zone specified: Mars/Olympus")

\* the value of a request header or query parameter, if present
Present(o, key) == key \in DOMAIN o

\* the part of s before its first comma
FirstEntry(s) ==
  IF \A i \in 1..Len(s) : CharAt(s, i) # "," THEN s
  ELSE SubSeq(s, 1, (CHOOSE i \in 1..Len(s) :
                       CharAt(s, i) = "," /\ \A j \in 1..(i - 1) : CharAt(s, j) # ",") - 1)

\* t is s without its leading and trailing whitespace
IsTrimOf(t, s) ==
  \E i \in 1..(Len(s) + 1), j \in 0..Len(s) :
    /\ i <= j + 1
    /\ t = (IF i <= j THEN SubSeq(s, i, j) ELSE "")
    /\ \A k \in 1..(i - 1) : CharAt(s, k) \in Whitespace
    /\ \A k \in (j + 1)..Len(s) : CharAt(s, k) \in Whitespace
    /\ i <= j => (CharAt(s, i) \notin Whitespace /\ CharAt(s, j) \notin Whitespace)

\* t is s without the prefix, when s starts with it, and s otherwise
IsPrefixStripped(t, s, prefix) ==
  IF Len(s) >= Len(prefix) /\ SubSeq(s, 1, Len(prefix)) = prefix
  THEN t = SubSeq(s, Len(prefix) + 1, Len(s))
  ELSE t = s

\* t is s without the first occurrence of mark, when it has one, and s otherwise
IsFirstRemoved(t, s, mark) ==
  LET at(i) == i + Len(mark) - 1 <= Len(s) /\ SubSeq(s, i, i + Len(mark) - 1) = mark
  IN  IF \A i \in 1..Len(s) : ~at(i) THEN t = s
      ELSE \E i \in 1..Len(s) :
             /\ at(i)
             /\ \A j \in 1..(i - 1) : ~at(j)
             /\ t = SubSeq(s, 1, i - 1) \o SubSeq(s, i + Len(mark), Len(s))

\* a string that is present and not empty
NonEmpty(o, key) == Present(o, key) /\ o[key] # Str("")

\* C5 as claimed: the ip parameter verbatim whenever it is present, whatever
\* its value; otherwise the first entry of the forwarded-for header, or of
\* the real-IP header when that one is absent, trimmed and with a ::ffff:
\* prefix stripped; 8.8.8.8 when the parameter and both headers are absent
\* (a header without a value is read as absent here).
C5_ParameterWheneverPresent ==
  HandledGet =>
    IF Present(req.query, "ip") THEN ip = req.query["ip"]
    ELSE IF NonEmpty(req.headers, "x-forwarded-for") \/ NonEmpty(req.headers, "x-real-ip")
      THEN LET header == IF NonEmpty(req.headers, "x-forwarded-for")
                         THEN req.headers["x-forwarded-for"].v
                         ELSE req.headers["x-real-ip"].v
           IN  /\ ip.ty = "string"
               /\ \E t \in {Trim(FirstEntry(header))} :
                    IsTrimOf(t, FirstEntry(header)) /\ IsPrefixStripped(ip.v, t, "::ffff:")
    ELSE ip = Str("8.8.8.8")

\* C5 amended: the ip parameter verbatim whenever it is present and not
\* empty; otherwise the first comma-separated entry of the forwarded-for
\* header, or when that is absent or empty of the real-IP header, or when
\* both are absent or empty of "8.8.8.8", with whitespace trimmed and then
\* the first occurrence of ::ffff: removed, wherever in the entry it is.
C5_ParameterWhenNonEmpty ==
  HandledGet =>
    IF NonEmpty(req.query, "ip") THEN ip = req.query["ip"]
    ELSE LET source == IF NonEmpty(req.headers, "x-forwarded-for")
                         THEN req.headers["x-forwarded-for"].v
                       ELSE IF NonEmpty(req.headers, "x-real-ip")
                         THEN req.headers["x-real-ip"].v
                       ELSE "8.8.8.8"
         IN  /\ ip.ty = "string"
             /\ \E t \in {Trim(FirstEntry(source))} :
                  IsTrimOf(t, FirstEntry(source)) /\ IsFirstRemoved(ip.v, t, "::ffff:")

\* C5 witness: the ip parameter is present but empty, and the address came
\* from the forwarded-for header with its ::ffff: prefix removed.
C5_Witness ==
  /\ HandledGet
  /\ Get(req.query, "ip") = Str("")
  /\ Get(req.headers, "x-forwarded-for") = Str("::ffff:1.2.3.4")
  /\ ip = Str("1.2.3.4")

\* which keys an object has, at every depth
RECURSIVE Shape(_)
Shape(x) == IF x.ty = "object" THEN [k \in DOMAIN x.v |-> Shape(x.v[k])] ELSE <<>>

\* the outbound call resolved with a success record in which some of the
\* optional fields are missing and the others are as in the full record
SuccessWithMissingFields ==
  /\ pc = "done"
  /\ ipData.ty = "object"
  /\ DOMAIN GeoRecord \ OptionalFields \subseteq DOMAIN ipData.v
  /\ DOMAIN ipData.v \subseteq DOMAIN GeoRecord
  /\ \A k \in DOMAIN ipData.v : SameValue(ipData.v[k], GeoRecord[k])

\* C7 as claimed: whatever optional fields are missing from a successful
\* answer, the response is a 200 whose payload has the ten steps, summary
\* and quick_links, requested_ip equal to the validated address, and every
\* field of every section present.
C7_FullyPopulated ==
  SuccessWithMissingFields =>
    /\ resStatus = 200
    /\ resBody.ty = "object"
    /\ {"steps", "summary", "quick_links", "requested_ip"} \subseteq DOMAIN resBody.v
    /\ DOMAIN resBody.v["steps"].v = {StepKeys[i] : i \in 1..10}
    /\ Cardinality(DOMAIN resBody.v["steps"].v) = 10
    /\ resBody.v["requested_ip"] = ip
    /\ Shape(resBody) = Shape(Compose(ip.v, GeoRecord, 0))

====
